---- MODULE Spec2Model ----
(***************************************************************************)
(* A model of lib4bottle-rs: the zint integer codecs (src/src/zint.rs) and *)
(* the bottle header / framing layer (src/src/bottle.rs).                  *)
(*                                                                         *)
(* Bytes are integers 0..255, buffers are sequences of bytes.  A u64 that  *)
(* may exceed the range of the model checker's integers is kept as its 8   *)
(* little-endian base-256 digits (the U64* operators); every other number  *)
(* is an Integer below 2^31.                                               *)
(***************************************************************************)
EXTENDS Integers, Sequences, FiniteSets, TLC

\* ------------------------------------------------------------------ bounds

\* lengths 0..SmallMax are all tried by the length codec
SmallMax == 300
\* every 2^k - Delta .. 2^k + Delta is tried, for 7 <= k <= MaxPow
Delta == 2
MaxPow == 29
\* headers of 0..MaxHeaderSmall bytes are tried with every list of sub-streams
MaxHeaderSmall == 2
\* a bottle holds at most MaxStreams sub-streams
MaxStreams == 2
\* wires of at most MaxTamperLen bytes are tampered with and cut short
MaxTamperLen == 9

\* the longest source given to decode_packed_int
MaxSource == 10

\* ------------------------------------------------------- machine integers

Pow2(k) == 2 ^ k

Shr(x, k) == x \div Pow2(k)

Shl(x, k) == x * Pow2(k)

AsU8(x) == x % 256

RECURSIVE BitAnd(_, _)
BitAnd(a, b) ==
  IF a = 0 \/ b = 0 THEN 0
  ELSE (a % 2) * (b % 2) + 2 * BitAnd(a \div 2, b \div 2)

BitOr(a, b) == a + b - BitAnd(a, b)

\* a u64 as 8 little-endian base-256 digits
U64Zero == [i \in 1..8 |-> 0]

U64FromInt(n) == [i \in 1..8 |-> IF i <= 4 THEN (n \div (256 ^ (i - 1))) % 256 ELSE 0]

\* TRUE iff the value is below 2^31
U64Fits(d) == d[5] = 0 /\ d[6] = 0 /\ d[7] = 0 /\ d[8] = 0 /\ d[4] < 128

U64ToInt(d) == d[1] + 256 * d[2] + 65536 * d[3] + 16777216 * d[4]

RECURSIVE U64Carry(_, _, _)
\* the carry into digit i of a + b
U64Carry(a, b, i) ==
  IF i = 1 THEN 0 ELSE (a[i - 1] + b[i - 1] + U64Carry(a, b, i - 1)) \div 256

\* a + b, wrapping at 2^64
U64Add(a, b) == [i \in 1..8 |-> (a[i] + b[i] + U64Carry(a, b, i)) % 256]

\* x << (8 * k), bits above 2^64 lost
U64ShlBytes(d, k) == [i \in 1..8 |-> IF i - k >= 1 THEN d[i - k] ELSE 0]

\* x >> (8 * k)
U64ShrBytes(d, k) == [i \in 1..8 |-> IF i + k <= 8 THEN d[i + k] ELSE 0]

RECURSIVE U64MulCarry(_, _, _)
U64MulCarry(d, m, i) ==
  IF i = 1 THEN 0 ELSE (d[i - 1] * m + U64MulCarry(d, m, i - 1)) \div 256

\* x << s for 0 <= s < 64, bits above 2^64 lost
U64Shl(d, s) ==
  LET b == U64ShlBytes(d, s \div 8)
      m == Pow2(s % 8)
  IN  [i \in 1..8 |-> (b[i] * m + U64MulCarry(b, m, i)) % 256]

\* ------------------------------------------------------------ zint: packed

RECURSIVE EncodePackedLoop(_, _)
\* the loop of encode_packed_int: the bytes put into buffer[0..count]
EncodePackedLoop(n, buffer) ==
  IF \E i \in 2..8 : n[i] # 0                       \* while n > 255
    THEN EncodePackedLoop(U64ShrBytes(n, 1), Append(buffer, n[1]))
    ELSE Append(buffer, n[1])

\* the bytes encode_packed_int hands to writer.write_all
encode_packed_int(number) == EncodePackedLoop(number, << >>)

RECURSIVE DecodePackedLoop(_, _, _, _)
\* the loop of decode_packed_int over a reader holding `bytes`, `pos` of them
\* consumed: reader.read is evaluated before shift < 64
DecodePackedLoop(bytes, pos, rv, shift) ==
  IF pos >= Len(bytes) THEN [value |-> rv, consumed |-> pos]
  ELSE IF ~(shift < 64) THEN [value |-> rv, consumed |-> pos + 1]
  ELSE DecodePackedLoop(bytes, pos + 1,
                        U64Add(rv, U64Shl(U64FromInt(bytes[pos + 1]), shift)),
                        shift + 8)

RECURSIVE DecodePackedLoopNoShift(_, _, _, _)
\* decode_packed_int's loop, had it no `shift += 8`
DecodePackedLoopNoShift(bytes, pos, rv, shift) ==
  IF pos >= Len(bytes) THEN [value |-> rv, consumed |-> pos]
  ELSE IF ~(shift < 64) THEN [value |-> rv, consumed |-> pos + 1]
  ELSE DecodePackedLoopNoShift(bytes, pos + 1,
                               U64Add(rv, U64Shl(U64FromInt(bytes[pos + 1]), shift)),
                               shift)

decode_packed_int_NoShift(bytes) == DecodePackedLoopNoShift(bytes, 0, U64Zero, 0)

decode_packed_int(bytes) == DecodePackedLoop(bytes, 0, U64Zero, 0)

\* ------------------------------------------------------------ zint: length

\* log_base2, had it no `x -= 1`
log_base2_NoDecrement(number) ==
  LET x0 == number
      x1 == x0 - BitAnd(Shr(x0, 1), 1431655765)
      x2 == BitAnd(x1, 858993459) + BitAnd(Shr(x1, 2), 858993459)
      x3 == BitAnd(x2 + Shr(x2, 4), 252645135)
      d3 == U64FromInt(x3)
      d4 == U64Add(d3, U64ShlBytes(d3, 1))
      d5 == U64Add(d4, U64ShlBytes(d4, 2))
      d6 == U64ShrBytes(d5, 3)
  IN  U64ToInt(d6)

\* log_base2 on a u64: a 32-bit population count of number - 1 whose last
\* three steps are not cut to 32 bits
log_base2(number) ==
  LET x0 == number - 1
      x1 == x0 - BitAnd(Shr(x0, 1), 1431655765)
      x2 == BitAnd(x1, 858993459) + BitAnd(Shr(x1, 2), 858993459)
      x3 == BitAnd(x2 + Shr(x2, 4), 252645135)
      d3 == U64FromInt(x3)
      d4 == U64Add(d3, U64ShlBytes(d3, 1))
      d5 == U64Add(d4, U64ShlBytes(d4, 2))
      d6 == U64ShrBytes(d5, 3)
  IN  U64ToInt(d6)

\* the guard of encode_length's second arm
IsPow2Arm(n) == n <= Shl(1, 22) /\ BitAnd(n, n - 1) = 0

\* encode_length, had its last arm `n <= (1 << 28)`
encode_length_LateOverflow(n) ==
  IF n < 128 THEN
    [ok |-> TRUE, bytes |-> << AsU8(n) >>]
  ELSE IF IsPow2Arm(n) THEN
    [ok |-> TRUE, bytes |-> << AsU8(240 + log_base2(n) - 7) >>]
  ELSE IF n < 8192 THEN
    [ok |-> TRUE,
     bytes |-> << 128 + AsU8(BitAnd(n, 63)), AsU8(BitAnd(Shr(n, 6), 255)) >>]
  ELSE IF n < Shl(1, 21) THEN
    [ok |-> TRUE,
     bytes |-> << 192 + AsU8(BitAnd(n, 31)),
                  AsU8(BitAnd(Shr(n, 5), 255)),
                  AsU8(BitAnd(Shr(n, 13), 255)) >>]
  ELSE IF n <= Shl(1, 28) THEN
    [ok |-> TRUE,
     bytes |-> << 224 + AsU8(BitAnd(n, 15)),
                  AsU8(BitAnd(Shr(n, 4), 255)),
                  AsU8(BitAnd(Shr(n, 12), 255)),
                  AsU8(BitAnd(Shr(n, 20), 255)) >>]
  ELSE
    [ok |-> FALSE, bytes |-> << >>]

\* encode_length, had its 2-byte arm kept 5 bits of n in the first byte
\* (`n & 0x1f`) and not 6
encode_length_NarrowMask(n) ==
  IF n < 128 THEN
    [ok |-> TRUE, bytes |-> << AsU8(n) >>]
  ELSE IF IsPow2Arm(n) THEN
    [ok |-> TRUE, bytes |-> << AsU8(240 + log_base2(n) - 7) >>]
  ELSE IF n < 8192 THEN
    [ok |-> TRUE,
     bytes |-> << 128 + AsU8(BitAnd(n, 31)), AsU8(BitAnd(Shr(n, 6), 255)) >>]
  ELSE IF n < Shl(1, 21) THEN
    [ok |-> TRUE,
     bytes |-> << 192 + AsU8(BitAnd(n, 31)),
                  AsU8(BitAnd(Shr(n, 5), 255)),
                  AsU8(BitAnd(Shr(n, 13), 255)) >>]
  ELSE IF n < Shl(1, 28) THEN
    [ok |-> TRUE,
     bytes |-> << 224 + AsU8(BitAnd(n, 15)),
                  AsU8(BitAnd(Shr(n, 4), 255)),
                  AsU8(BitAnd(Shr(n, 12), 255)),
                  AsU8(BitAnd(Shr(n, 20), 255)) >>]
  ELSE
    [ok |-> FALSE, bytes |-> << >>]

\* encode_length: ok, and the bytes handed to writer.write; the arms of the
\* match are tried in order
encode_length(n) ==
  IF n < 128 THEN
    [ok |-> TRUE, bytes |-> << AsU8(n) >>]
  ELSE IF IsPow2Arm(n) THEN
    [ok |-> TRUE, bytes |-> << AsU8(240 + log_base2(n) - 7) >>]
  ELSE IF n < 8192 THEN
    [ok |-> TRUE,
     bytes |-> << 128 + AsU8(BitAnd(n, 63)), AsU8(BitAnd(Shr(n, 6), 255)) >>]
  ELSE IF n < Shl(1, 21) THEN
    [ok |-> TRUE,
     bytes |-> << 192 + AsU8(BitAnd(n, 31)),
                  AsU8(BitAnd(Shr(n, 5), 255)),
                  AsU8(BitAnd(Shr(n, 13), 255)) >>]
  ELSE IF n < Shl(1, 28) THEN
    [ok |-> TRUE,
     bytes |-> << 224 + AsU8(BitAnd(n, 15)),
                  AsU8(BitAnd(Shr(n, 4), 255)),
                  AsU8(BitAnd(Shr(n, 12), 255)),
                  AsU8(BitAnd(Shr(n, 20), 255)) >>]
  ELSE
    [ok |-> FALSE, bytes |-> << >>]

\* lengthLength: the bytes of a length, from its first byte (the reference
\* function has no result when no test matches: 0 here)
lengthLength(byte) ==
  IF BitAnd(byte, 240) = 240 \/ BitAnd(byte, 128) = 0 THEN 1
  ELSE IF BitAnd(byte, 192) = 128 THEN 2
  ELSE IF BitAnd(byte, 224) = 192 THEN 3
  ELSE IF BitAnd(byte, 240) = 224 THEN 4
  ELSE 0

\* decodeLength: the length, 0 for end of stream, -1 for end of all streams
decodeLength(buffer) ==
  IF buffer[1] = 255 THEN -1
  ELSE IF BitAnd(buffer[1], 128) = 0 THEN buffer[1]
  ELSE IF BitAnd(buffer[1], 240) = 240 THEN Pow2(7 + BitAnd(buffer[1], 15))
  ELSE IF BitAnd(buffer[1], 192) = 128 THEN
    BitAnd(buffer[1], 63) + Shl(buffer[2], 6)
  ELSE IF BitAnd(buffer[1], 224) = 192 THEN
    BitAnd(buffer[1], 63) + Shl(buffer[2], 5) + Shl(buffer[3], 13)
  ELSE
    BitAnd(buffer[1], 15) + Shl(buffer[2], 4) + Shl(buffer[3], 12)
      + Shl(buffer[4], 20)

\* ------------------------------------------------------------ bottle: data

MAGIC == << 240, 159, 141, 188 >>

VERSION == 0

MAX_HEADER_SIZE == 4095

MIN_BUFFER == 1024

\* zint::END_OF_STREAM, the length that ends one stream
END_OF_STREAM == 0

END_OF_STREAM_BYTES == encode_length(END_OF_STREAM).bytes

\* the one byte that ends all streams
END_OF_ALL_STREAMS_BYTES == << 255 >>

\* enum BottleType, and `btype as u8`
BottleType == { "File", "Hashed", "Encrypted", "Compressed", "Test", "Test2" }

BottleTypeAsU8(btype) ==
  CASE btype = "File" -> 0
    [] btype = "Hashed" -> 1
    [] btype = "Encrypted" -> 3
    [] btype = "Compressed" -> 4
    [] btype = "Test" -> 10
    [] btype = "Test2" -> 11

\* decode_bottle_type, had it `2 => Encrypted`
decode_bottle_type_Shifted(btype) ==
  CASE btype = 0 -> [ok |-> TRUE, btype |-> "File"]
    [] btype = 1 -> [ok |-> TRUE, btype |-> "Hashed"]
    [] btype = 2 -> [ok |-> TRUE, btype |-> "Encrypted"]
    [] btype = 4 -> [ok |-> TRUE, btype |-> "Compressed"]
    [] btype = 10 -> [ok |-> TRUE, btype |-> "Test"]
    [] btype = 11 -> [ok |-> TRUE, btype |-> "Test2"]
    [] OTHER -> [ok |-> FALSE, error |-> "UnknownBottleType"]

decode_bottle_type(btype) ==
  CASE btype = 0 -> [ok |-> TRUE, btype |-> "File"]
    [] btype = 1 -> [ok |-> TRUE, btype |-> "Hashed"]
    [] btype = 3 -> [ok |-> TRUE, btype |-> "Encrypted"]
    [] btype = 4 -> [ok |-> TRUE, btype |-> "Compressed"]
    [] btype = 10 -> [ok |-> TRUE, btype |-> "Test"]
    [] btype = 11 -> [ok |-> TRUE, btype |-> "Test2"]
    [] OTHER -> [ok |-> FALSE, error |-> "UnknownBottleType"]

\* ------------------------------------------------- bottle: collaborators

\* Header: an opaque value, here the bytes it encodes to
HeaderEncode(header) == header

HeaderDecode(bytes) == [ok |-> TRUE, header |-> bytes]

RECURSIVE FlattenBytes(_)
\* flatten_bytes: the buffers of a list, joined
FlattenBytes(buffers) ==
  IF buffers = << >> THEN << >>
  ELSE Head(buffers) \o FlattenBytes(Tail(buffers))

RECURSIVE FlattenStream(_)
\* the bytes of a stream of chunk-groups, in order
FlattenStream(s) ==
  IF s = << >> THEN << >>
  ELSE FlattenBytes(Head(s)) \o FlattenStream(Tail(s))

\* make_stream: a stream of one item, the given buffers
make_stream(buffers) == << buffers >>

\* make_stream_1: a stream of one item of one buffer
make_stream_1(buffer) == << << buffer >> >>

RECURSIVE BufferLoop(_, _, _, _)
\* the chunk coalescer over the groups left, `acc` the buffers held back
BufferLoop(s, floor, acc, out) ==
  IF s = << >> THEN
    IF Len(FlattenBytes(acc)) > 0 THEN Append(out, acc) ELSE out
  ELSE
    LET held == acc \o Head(s)
    IN  IF Len(FlattenBytes(held)) >= floor
          THEN BufferLoop(Tail(s), floor, << >>, Append(out, held))
          ELSE BufferLoop(Tail(s), floor, held, out)

\* buffer_stream(s, floor, false): groups of at least `floor` bytes, but for
\* the last
buffer_stream(s, floor) == BufferLoop(s, floor, << >>, << >>)

\* stream_read_exact(s, count) on a stream of which `pos` bytes are taken;
\* count is a u64
stream_read_exact(bytes, pos, count) ==
  IF U64Fits(count) /\ pos + U64ToInt(count) <= Len(bytes)
    THEN [ok |-> TRUE,
          buffer |-> SubSeq(bytes, pos + 1, pos + U64ToInt(count)),
          pos |-> pos + U64ToInt(count)]
    ELSE [ok |-> FALSE, error |-> "TruncatedInput", pos |-> Len(bytes)]

\* ---------------------------------------------------------- bottle: writer

\* the fold of framed_vec_stream: the bytes of a chunk-group
TotalLength(buffers) == Len(FlattenBytes(buffers))

\* the closure of framed_vec_stream's map, had it pushed the length of the
\* group's first buffer
new_buffers_FirstOnly(buffers) ==
  << encode_length(IF buffers = << >> THEN 0 ELSE Len(buffers[1])).bytes >>
    \o buffers

\* the closure of framed_vec_stream's map: the group's bytes counted, the
\* count pushed as a new first buffer, the group's buffers after it
new_buffers(buffers) ==
  << encode_length(TotalLength(buffers)).bytes >> \o buffers

\* framed_vec_stream: every chunk-group gets a new first buffer, its length
\* (`total_length as u32` changes no length below 2^32); then the end of
\* stream
framed_vec_stream(s) ==
  [i \in 1..Len(s) |-> new_buffers(s[i])]
    \o make_stream_1(END_OF_STREAM_BYTES)

\* the 4 bytes after the magic
VersionBytes(btype, len) ==
  << VERSION,
     0,
     BitOr(AsU8(Shl(BottleTypeAsU8(btype), 4)), AsU8(BitAnd(Shr(len, 8), 15))),
     AsU8(BitAnd(len, 255)) >>

\* make_header_stream, had it `assert!(header_bytes.len() < MAX_HEADER_SIZE)`
make_header_stream_Strict(btype, header) ==
  LET header_bytes == HeaderEncode(header)
  IN  IF ~(Len(header_bytes) < MAX_HEADER_SIZE)
        THEN [panic |-> TRUE, stream |-> << >>]
        ELSE [panic |-> FALSE,
              stream |-> make_stream(<< MAGIC,
                                        VersionBytes(btype, Len(header_bytes)),
                                        header_bytes >>)]

\* make_header_stream: the assert fails (panic), or a stream of one group
make_header_stream(btype, header) ==
  LET header_bytes == HeaderEncode(header)
  IN  IF ~(Len(header_bytes) <= MAX_HEADER_SIZE)
        THEN [panic |-> TRUE, stream |-> << >>]
        ELSE [panic |-> FALSE,
              stream |-> make_stream(<< MAGIC,
                                        VersionBytes(btype, Len(header_bytes)),
                                        header_bytes >>)]

RECURSIVE Combined(_)
\* the framed streams of make_bottle, one after the other
Combined(streams) ==
  IF streams = << >> THEN << >>
  ELSE framed_vec_stream(buffer_stream(Head(streams), MIN_BUFFER))
         \o Combined(Tail(streams))

\* make_bottle: a panic, or every item of the stream it returns
make_bottle(btype, header, streams) ==
  LET combined == Combined(streams)
      hs == make_header_stream(btype, header)
  IN  IF hs.panic
        THEN [panic |-> TRUE, stream |-> << >>]
        ELSE [panic |-> FALSE,
              stream |-> hs.stream \o combined
                           \o make_stream_1(END_OF_ALL_STREAMS_BYTES)]

\* ----------------------------------------------------- bottle: the polls

\* one poll of a stream held in memory, n of its items taken: the next item,
\* or none; such a stream holds nothing back
stream_poll(s, n) ==
  IF n < Len(s)
    THEN [some |-> TRUE, item |-> s[n + 1], pulled |-> n + 1, acc |-> << >>]
    ELSE [some |-> FALSE, item |-> << >>, pulled |-> n, acc |-> << >>]

RECURSIVE buffer_stream_poll(_, _, _, _)
\* one poll of buffer_stream(s, floor, false), n groups of s taken and acc
\* held: s is polled until `floor` bytes are held or s has ended
buffer_stream_poll(s, n, acc, floor) ==
  LET up == stream_poll(s, n)
  IN  IF ~up.some THEN
        IF Len(FlattenBytes(acc)) > 0
          THEN [some |-> TRUE, item |-> acc, pulled |-> n, acc |-> << >>]
          ELSE [some |-> FALSE, item |-> << >>, pulled |-> n, acc |-> << >>]
      ELSE
        LET held == acc \o up.item
        IN  IF Len(FlattenBytes(held)) >= floor
              THEN [some |-> TRUE, item |-> held, pulled |-> up.pulled, acc |-> << >>]
              ELSE buffer_stream_poll(s, up.pulled, held, floor)

\* one poll of framed_vec_stream, had its map taken two groups of the
\* stream under it for one item
framed_vec_stream_poll_Eager(up, n, acc, inner) ==
  IF inner = "Second" THEN
    [some |-> FALSE, item |-> << >>, pulled |-> n, acc |-> acc, inner |-> "Second"]
  ELSE IF up.some THEN
    [some |-> TRUE, item |-> new_buffers(up.item),
     pulled |-> up.pulled + 1, acc |-> up.acc, inner |-> "First"]
  ELSE
    [some |-> TRUE, item |-> make_stream_1(END_OF_STREAM_BYTES)[1],
     pulled |-> up.pulled, acc |-> up.acc, inner |-> "Second"]

\* one poll of framed_vec_stream(s), `up` the poll of s it makes: the chain
\* polls the map while s has groups, the end of stream when s ends, and
\* nothing after that.  In "Second" s is not polled
framed_vec_stream_poll(up, n, acc, inner) ==
  IF inner = "Second" THEN
    [some |-> FALSE, item |-> << >>, pulled |-> n, acc |-> acc, inner |-> "Second"]
  ELSE IF up.some THEN
    [some |-> TRUE, item |-> new_buffers(up.item),
     pulled |-> up.pulled, acc |-> up.acc, inner |-> "First"]
  ELSE
    [some |-> TRUE, item |-> make_stream_1(END_OF_STREAM_BYTES)[1],
     pulled |-> up.pulled, acc |-> up.acc, inner |-> "Second"]

RECURSIVE combined_poll_NoOrder(_, _)
\* one poll of `combined`, had the streams been taken last to first
combined_poll_NoOrder(streams, st) ==
  LET at == Len(streams) + 1 - st.cur
      r == framed_vec_stream_poll(
             buffer_stream_poll(streams[at], st.pulled[at], st.acc, MIN_BUFFER),
             st.pulled[at], st.acc, st.inner)
  IN  IF st.cur > 0 /\ r.some THEN
        [some |-> TRUE, item |-> r.item,
         st |-> [st EXCEPT !.inner = r.inner, !.acc = r.acc,
                           !.pulled[at] = r.pulled]]
      ELSE IF st.cur >= Len(streams) THEN
        [some |-> FALSE, item |-> << >>, st |-> st]
      ELSE
        combined_poll_NoOrder(streams, [st EXCEPT !.cur = st.cur + 1,
                                                  !.inner = "First",
                                                  !.acc = << >>])

RECURSIVE combined_poll(_, _)
\* one poll of `combined`, the flattened iterator of make_bottle: the
\* framed, buffered stream it is in is polled; when that has ended the
\* iterator gives the next stream, or `combined` ends.  st.cur = 0: no stream
\* was taken from the iterator yet
combined_poll(streams, st) ==
  LET r == framed_vec_stream_poll(
             buffer_stream_poll(streams[st.cur], st.pulled[st.cur], st.acc, MIN_BUFFER),
             st.pulled[st.cur], st.acc, st.inner)
  IN  IF st.cur > 0 /\ r.some THEN
        [some |-> TRUE, item |-> r.item,
         st |-> [st EXCEPT !.inner = r.inner, !.acc = r.acc,
                           !.pulled[st.cur] = r.pulled]]
      ELSE IF st.cur >= Len(streams) THEN
        [some |-> FALSE, item |-> << >>, st |-> st]
      ELSE
        combined_poll(streams, [st EXCEPT !.cur = st.cur + 1,
                                          !.inner = "First",
                                          !.acc = << >>])

\* one poll of the stream make_bottle returned: the chain of the header's
\* stream, `combined` and the end of all streams
make_bottle_poll(btype, header, streams, st) ==
  IF st.chain = "header" THEN
    [some |-> TRUE, item |-> make_header_stream(btype, header).stream[1],
     st |-> [st EXCEPT !.chain = "combined"]]
  ELSE IF st.chain = "combined" THEN
    LET r == combined_poll(streams, st)
    IN  IF r.some
          THEN [some |-> TRUE, item |-> r.item, st |-> r.st]
          ELSE [some |-> TRUE, item |-> make_stream_1(END_OF_ALL_STREAMS_BYTES)[1],
                st |-> [r.st EXCEPT !.chain = "end"]]
  ELSE
    [some |-> FALSE, item |-> << >>, st |-> st]

\* ---------------------------------------------------------- bottle: reader

\* check_magic, had it compared `buffer.slice(0, 3)`
check_magic_ShortSlice(buffer, overflowChecked) ==
  IF SubSeq(buffer, 1, 3) # SubSeq(MAGIC, 1, 3) THEN
    [kind |-> "Err", error |-> "BadMagic"]
  ELSE IF buffer[5] # VERSION \/ buffer[6] # 0 THEN
    [kind |-> "Err", error |-> "BadVersion"]
  ELSE
    LET bt == decode_bottle_type(BitAnd(Shr(buffer[7], 4), 15))
        amount == 8 + buffer[8]
    IN  IF ~bt.ok THEN [kind |-> "Err", error |-> bt.error]
        ELSE IF amount >= 64 /\ overflowChecked THEN [kind |-> "Panic"]
        ELSE [kind |-> "Ok",
              btype |-> bt.btype,
              header_length |->
                U64Shl(U64FromInt(BitAnd(buffer[7], 15)), amount % 64)]

\* check_magic on 8 bytes (buffer[1..8] here is buffer[0..7] there).  The
\* shift amount is 8 + the last byte (+ binds tighter than <<); on a usize of
\* 64 bits a shift of 64 or more panics where overflow is checked and is
\* taken modulo 64 where it is not
check_magic(buffer, overflowChecked) ==
  IF SubSeq(buffer, 1, 4) # MAGIC THEN
    [kind |-> "Err", error |-> "BadMagic"]
  ELSE IF buffer[5] # VERSION \/ buffer[6] # 0 THEN
    [kind |-> "Err", error |-> "BadVersion"]
  ELSE
    LET bt == decode_bottle_type(BitAnd(Shr(buffer[7], 4), 15))
        amount == 8 + buffer[8]
    IN  IF ~bt.ok THEN [kind |-> "Err", error |-> bt.error]
        ELSE IF amount >= 64 /\ overflowChecked THEN [kind |-> "Panic"]
        ELSE [kind |-> "Ok",
              btype |-> bt.btype,
              header_length |->
                U64Shl(U64FromInt(BitAnd(buffer[7], 15)), amount % 64)]

\* --------------------------------------------------------------- the state

VARIABLES
  zpc,        \* "idle", "length_written", "length_read", "packed_written", "packed_read", "source_read"
  number,     \* the number given to encode_length
  packed,     \* the u64 given to encode_packed_int
  writer,     \* the bytes the writer holds
  ioResult,   \* "none", "Ok", "Err": what the encoder returned
  lengthOut,  \* what decodeLength returned
  packedOut,  \* what decode_packed_int returned (a u64)
  consumed,   \* the bytes decode_packed_int took from its reader
  typeIn,     \* the byte given to decode_bottle_type, -1 before the call
  typeOut,    \* what decode_bottle_type returned
  magicIn,    \* the 8 bytes given to check_magic, << >> when none was
  magicOut,   \* what check_magic returned
  lensIn,     \* the lengths of the buffers of a chunk-group, << -1 >> when none
  prefixOut   \* the first buffer framed_vec_stream pushed for that chunk-group

VARIABLES
  overflowChecked, \* the build checks arithmetic overflow (debug) or not (release)
  bpc,        \* "idle", "built", "panicked": make_bottle not called, returned, panicked
  btype,      \* make_bottle's arguments
  header,
  streams,
  out,        \* the items of the stream make_bottle returned
  wire,       \* the bytes that reach the reader
  tampered,   \* a byte of the preamble was changed on the way
  cut,        \* the bytes were cut short on the way
  rstate,     \* the reader's state
  pos,        \* the bytes the reader has taken from the wire
  preType,    \* check_magic's result, held until the header body is read
  preLength,
  rtype,      \* what read_header yielded
  rheader,
  rstreams,   \* the sub-streams read to their end, each as its bytes
  rcur,       \* the bytes of the sub-stream being read
  rframe,     \* the length of the frame being read
  rerror      \* the error the reader failed with

VARIABLES
  ppc,        \* "idle", "polling", "finished", "panicked": the stream a consumer polls
  pkind,      \* "none", "framed_vec_stream", "make_bottle": what built that stream
  pst,        \* where that stream's chains and buffers are
  requested,  \* the polls the consumer made
  lastPulls   \* the chunk-groups the last poll took from the streams under it

tvars == << typeIn, typeOut, magicIn, magicOut, lensIn, prefixOut >>

zvars == << zpc, number, packed, writer, ioResult, lengthOut, packedOut, consumed, tvars >>

wvars == << btype, header, streams, out >>

rvars == << rstate, pos, preType, preLength, rtype, rheader, rstreams, rcur, rframe, rerror >>

bvars == << bpc, wvars, wire, tampered, cut, rvars >>

pvars == << ppc, pkind, pst, requested, lastPulls >>

vars == << zvars, overflowChecked, bvars, pvars >>

\* ------------------------------------------------------------- the inputs

\* the lengths tried: all small ones, the neighbourhood of every power of two,
\* and the numbers of tests/test_zint.rs
LengthInputs ==
  (0..SmallMax)
    \cup { Pow2(k) + d : k \in 7..MaxPow, d \in (0 - Delta)..Delta }
    \cup { 8191, 8192, 8193, 12345, 3998778, 87654321 }

\* the u64 tried by the packed codec: the small ones, the numbers of
\* tests/test_zint.rs, and for every byte count k the least and the greatest
\* number of k bytes and one with zero bytes inside
PackedInputs ==
  { U64FromInt(v) : v \in (0..SmallMax) \cup {65535, 65536, 987654321} }
    \cup { [i \in 1..8 |-> IF i = k THEN 1 ELSE 0] : k \in 1..8 }
    \cup { [i \in 1..8 |-> IF i <= k THEN 255 ELSE 0] : k \in 1..8 }
    \cup { [i \in 1..8 |-> IF i = k THEN 128 ELSE IF i = 1 THEN 7 ELSE 0] : k \in 2..8 }

\* the sources given to decode_packed_int that are not what one
\* encode_packed_int wrote: from no byte to more than 8, the bytes of a
\* number with others after them
PackedSources ==
  { [i \in 1..len |-> (37 * i + seed) % 256] :
      len \in 0..MaxSource, seed \in { 0, 1, 219 } }
    \cup { [i \in 1..len |-> 255] : len \in 0..MaxSource }
    \cup { encode_packed_int(U64FromInt(v)) \o after :
             v \in { 0, 255, 256, 987654321 },
             after \in { << 0 >>, << 1, 2 >> } }

\* a buffer of len bytes
Chunk(len, seed) == [i \in 1..len |-> (i + seed) % 256]

\* the encoded header lengths tried: the small ones, and those around the
\* values of the length field's two bytes that matter
HeaderLens ==
  (0..MaxHeaderSmall) \cup { 55, 56, 57, 255, 256, 257, 312, 4095, 4096, 4097 }

Headers ==
  { [i \in 1..len |-> fill] : len \in HeaderLens, fill \in {65, 255} }

\* the sub-streams tried, each a sequence of chunk-groups
SubStreams ==
  { << >>,
    << << Chunk(2, 253), Chunk(1, 255) >>, << Chunk(3, 7) >>, << Chunk(1, 128) >> >>,
    << << Chunk(1024, 0) >>, << Chunk(3, 1) >> >>,
    << << Chunk(600, 0) >>, << Chunk(600, 5) >>, << Chunk(130, 3) >> >> }

\* the streams given to framed_vec_stream itself: none of them went through
\* buffer_stream, so a chunk-group may hold no buffer, or no byte
FrameInputs ==
  SubStreams
    \cup { << << >> >>,
           << << << >> >> >>,
           << << Chunk(127, 0) >>, << Chunk(128, 1) >>, << Chunk(129, 2) >> >>,
           << << Chunk(100, 0), Chunk(28, 4) >>, << >>, << Chunk(1, 9) >> >> }

\* the chunk-groups known by the lengths of their buffers: of no buffer and
\* of no byte, around the lengths where encode_length changes its form, 2^22
\* in one buffer and in several, and a length in every form
GroupLengths ==
  { << >>, << 0 >>, << 0, 0 >>, << 1 >>, << 100, 28 >>, << 8191, 1 >>,
    << 2097152 >>, << 2097152, 2097152 >>, << 4194303, 1 >>, << 1048576, 3145728 >>,
    << 4194303 >>, << 4194305 >>, << 268435455 >> }
    \cup { << n >> : n \in 126..130 }
    \cup { << n, 1 >> : n \in 8190..8194 }

StreamLists == UNION { [1..n -> SubStreams] : n \in 0..MaxStreams }

\* the 8 bytes given to check_magic: the magic and the magic with a byte
\* changed, versions and reserved bytes that are 0 and that are not, every
\* type nibble, and lengths whose low byte makes the shift short, long, and
\* 64 or more
PreambleInputs ==
  { m \o << b4, b5, 16 * hi + lo, b7 >> :
      m \in { MAGIC, << 0, 0, 0, 0 >> }
               \cup { [MAGIC EXCEPT ![i] = (MAGIC[i] + 1) % 256] : i \in 1..4 },
      b4 \in { 0, 1, 255 },
      b5 \in { 0, 1 },
      hi \in 0..15,
      lo \in { 0, 1, 15 },
      b7 \in { 0, 1, 3, 4, 55, 56, 255 } }

\* the values a byte of the preamble is changed to on the way: every type
\* nibble with a low nibble of 0 or 1, and the bytes around the magic's, the
\* sentinels and a shift amount of 64
TamperBytes ==
  { 16 * hi + lo : hi \in 0..15, lo \in 0..1 }
    \cup { 2, 55, 56, 57, 127, 128, 141, 159, 188, 239, 254, 255 }

\* ------------------------------------------------------------------- Init

Init ==
  /\ zpc = "idle"
  /\ number = 0
  /\ packed = U64Zero
  /\ writer = << >>
  /\ ioResult = "none"
  /\ lengthOut = 0
  /\ packedOut = U64Zero
  /\ consumed = 0
  /\ typeIn = -1
  /\ typeOut = [ok |-> FALSE, error |-> "none"]
  /\ magicIn = << >>
  /\ magicOut = [kind |-> "none"]
  /\ lensIn = << -1 >>
  /\ prefixOut = << >>
  /\ overflowChecked \in BOOLEAN
  /\ bpc = "idle"
  /\ btype = "File"
  /\ header = << >>
  /\ streams = << >>
  /\ out = << >>
  /\ wire = << >>
  /\ tampered = FALSE
  /\ cut = FALSE
  /\ rstate = "AwaitingPreamble"
  /\ pos = 0
  /\ preType = "none"
  /\ preLength = U64Zero
  /\ rtype = "none"
  /\ rheader = << >>
  /\ rstreams = << >>
  /\ rcur = << >>
  /\ rframe = 0
  /\ rerror = "none"
  /\ ppc = "idle"
  /\ pkind = "none"
  /\ pst = [chain |-> "none", cur |-> 0, inner |-> "First", acc |-> << >>,
            pulled |-> << >>]
  /\ requested = 0
  /\ lastPulls = 0

\* ----------------------------------------------------------- zint: actions

\* encode_length(&mut writer, n)
EncodeLength ==
  /\ zpc = "idle"
  /\ \E n \in LengthInputs :
       LET r == encode_length(n)
       IN  /\ number' = n
           /\ writer' = writer \o r.bytes
           /\ ioResult' = IF r.ok THEN "Ok" ELSE "Err"
  /\ zpc' = "length_written"
  /\ UNCHANGED << packed, lengthOut, packedOut, consumed, tvars, overflowChecked, bvars, pvars >>

\* decodeLength over the bytes an encode_length wrote
DecodeLength ==
  /\ zpc = "length_written"
  /\ ioResult = "Ok"
  /\ lengthOut' = decodeLength(writer)
  /\ zpc' = "length_read"
  /\ UNCHANGED << number, packed, writer, ioResult, packedOut, consumed,
                  tvars, overflowChecked, bvars, pvars >>

\* encode_packed_int(&mut writer, n)
EncodePackedInt ==
  /\ zpc = "idle"
  /\ \E n \in PackedInputs :
       /\ packed' = n
       /\ writer' = writer \o encode_packed_int(n)
  /\ ioResult' = "Ok"
  /\ zpc' = "packed_written"
  /\ UNCHANGED << number, lengthOut, packedOut, consumed, tvars, overflowChecked, bvars, pvars >>

\* decode_packed_int over a reader holding exactly the bytes written
DecodePackedInt ==
  /\ zpc = "packed_written"
  /\ LET r == decode_packed_int(writer)
     IN  /\ packedOut' = r.value
         /\ consumed' = r.consumed
  /\ zpc' = "packed_read"
  /\ UNCHANGED << number, packed, writer, ioResult, lengthOut, tvars, overflowChecked, bvars, pvars >>

\* decode_packed_int over a reader holding any bytes
DecodePackedSource ==
  /\ zpc = "idle"
  /\ \E source \in PackedSources :
       LET r == decode_packed_int(source)
       IN  /\ writer' = source
           /\ packedOut' = r.value
           /\ consumed' = r.consumed
  /\ zpc' = "source_read"
  /\ UNCHANGED << number, packed, ioResult, lengthOut, tvars, overflowChecked, bvars, pvars >>

ZNext ==
  \/ EncodeLength
  \/ DecodeLength
  \/ EncodePackedInt
  \/ DecodePackedInt
  \/ DecodePackedSource

\* --------------------------------------------------------- bottle: actions

\* make_bottle(btype, header, streams), and the consumer pulling the stream
\* it returns to its end
MakeBottle ==
  /\ bpc = "idle"
  /\ typeIn = -1
  /\ \E t \in BottleType, h \in Headers, ss \in StreamLists :
       /\ Len(h) <= MaxHeaderSmall \/ ss = << >>
       /\ LET r == make_bottle(t, h, ss)
          IN  /\ btype' = t
              /\ header' = h
              /\ streams' = ss
              /\ out' = r.stream
              /\ wire' = FlattenStream(r.stream)
              /\ bpc' = IF r.panic THEN "panicked" ELSE "built"
  /\ UNCHANGED << zvars, overflowChecked, pvars, tampered, cut, rvars >>

\* the environment: one byte of the preamble changes before it is read
Tamper ==
  /\ bpc = "built"
  /\ rstate = "AwaitingPreamble"
  /\ ~tampered
  /\ ~cut
  /\ Len(wire) <= MaxTamperLen
  /\ \E i \in 1..8, v \in TamperBytes :
       /\ v # wire[i]
       /\ wire' = [wire EXCEPT ![i] = v]
  /\ tampered' = TRUE
  /\ UNCHANGED << zvars, overflowChecked, pvars, bpc, wvars, cut, rvars >>

\* the environment: the stream ends early
Cut ==
  /\ bpc = "built"
  /\ rstate = "AwaitingPreamble"
  /\ ~cut
  /\ Len(wire) <= MaxTamperLen
  /\ \E k \in 0..(Len(wire) - 1) : wire' = SubSeq(wire, 1, k)
  /\ cut' = TRUE
  /\ UNCHANGED << zvars, overflowChecked, pvars, bpc, wvars, tampered, rvars >>

\* decode_bottle_type(b) on any byte
DecodeBottleType ==
  /\ bpc = "idle"
  /\ typeIn = -1
  /\ \E b \in 0..255 :
       /\ typeIn' = b
       /\ typeOut' = decode_bottle_type(b)
  /\ UNCHANGED << zpc, number, packed, writer, ioResult, lengthOut, packedOut,
                  consumed, magicIn, magicOut, lensIn, prefixOut, overflowChecked,
                  bvars, pvars >>

\* the reader stops with an error
Fail(error, at) ==
  /\ rstate' = "Failed"
  /\ rerror' = error
  /\ pos' = at

\* read_header, first half: stream_read_exact(s, 8), then check_magic
ReadPreamble ==
  /\ bpc = "built"
  /\ rstate = "AwaitingPreamble"
  /\ LET r == stream_read_exact(wire, pos, U64FromInt(8))
     IN  IF ~r.ok THEN
           /\ Fail(r.error, r.pos)
           /\ UNCHANGED << preType, preLength >>
         ELSE
           LET m == check_magic(r.buffer, overflowChecked)
           IN  IF m.kind = "Err" THEN
                 /\ Fail(m.error, r.pos)
                 /\ UNCHANGED << preType, preLength >>
               ELSE IF m.kind = "Panic" THEN
                 /\ rstate' = "Panicked"
                 /\ pos' = r.pos
                 /\ UNCHANGED << rerror, preType, preLength >>
               ELSE
                 /\ rstate' = "AwaitingHeaderBody"
                 /\ pos' = r.pos
                 /\ preType' = m.btype
                 /\ preLength' = m.header_length
                 /\ UNCHANGED rerror
  /\ UNCHANGED << zvars, overflowChecked, pvars, bpc, wvars, wire, tampered, cut,
                  rtype, rheader, rstreams, rcur, rframe >>

\* read_header's second half, had it yielded the type and the bytes it got
\* when the header's bytes ran out
ReadHeaderBody_Partial ==
  /\ rstate = "AwaitingHeaderBody"
  /\ LET r == stream_read_exact(wire, pos, preLength)
     IN  IF ~r.ok THEN
           /\ Fail(r.error, r.pos)
           /\ rtype' = preType
           /\ rheader' = SubSeq(wire, pos + 1, Len(wire))
         ELSE
           /\ rstate' = "AwaitingStreamOrEnd"
           /\ pos' = r.pos
           /\ rtype' = preType
           /\ rheader' = HeaderDecode(FlattenBytes(<< r.buffer >>)).header
           /\ UNCHANGED rerror
  /\ UNCHANGED << zvars, overflowChecked, pvars, bpc, wvars, wire, tampered, cut,
                  preType, preLength, rstreams, rcur, rframe >>

\* read_header, second half: stream_read_exact(s, header_length), then
\* Header::decode; the future yields (btype, header, s)
ReadHeaderBody ==
  /\ rstate = "AwaitingHeaderBody"
  /\ LET r == stream_read_exact(wire, pos, preLength)
     IN  IF ~r.ok THEN
           /\ Fail(r.error, r.pos)
           /\ UNCHANGED << rtype, rheader >>
         ELSE
           LET h == HeaderDecode(FlattenBytes(<< r.buffer >>))
           IN  IF ~h.ok THEN
                 /\ Fail("MalformedHeaderBody", r.pos)
                 /\ UNCHANGED << rtype, rheader >>
               ELSE
                 /\ rstate' = "AwaitingStreamOrEnd"
                 /\ pos' = r.pos
                 /\ rtype' = preType
                 /\ rheader' = h.header
                 /\ UNCHANGED rerror
  /\ UNCHANGED << zvars, overflowChecked, pvars, bpc, wvars, wire, tampered, cut,
                  preType, preLength, rstreams, rcur, rframe >>

\* the reference reader's next(): one byte; none, or the end of all
\* streams, ends the bottle; any other is put back and starts a sub-stream
AwaitStreamOrEnd ==
  /\ rstate = "AwaitingStreamOrEnd"
  /\ IF pos >= Len(wire) THEN
       /\ rstate' = "Done"
       /\ UNCHANGED << pos, rcur >>
     ELSE IF << wire[pos + 1] >> = END_OF_ALL_STREAMS_BYTES THEN
       /\ rstate' = "Done"
       /\ pos' = pos + 1
       /\ UNCHANGED rcur
     ELSE
       /\ rstate' = "ReadingFrameLength"
       /\ rcur' = << >>
       /\ UNCHANGED pos
  /\ UNCHANGED << zvars, overflowChecked, pvars, bpc, wvars, wire, tampered, cut,
                  preType, preLength, rtype, rheader, rstreams, rframe, rerror >>

\* a sub-stream's next length: its first byte tells how many bytes it has;
\* the end of stream closes the sub-stream, a length starts a frame
ReadFrameLength ==
  /\ rstate = "ReadingFrameLength"
  /\ LET first == stream_read_exact(wire, pos, U64FromInt(1))
     IN  IF ~first.ok THEN
           /\ Fail(first.error, first.pos)
           /\ UNCHANGED << rstreams, rcur, rframe >>
         ELSE
           LET r == stream_read_exact(wire, pos,
                                      U64FromInt(lengthLength(first.buffer[1])))
           IN  IF ~r.ok THEN
                 /\ Fail(r.error, r.pos)
                 /\ UNCHANGED << rstreams, rcur, rframe >>
               ELSE IF decodeLength(r.buffer) = -1 THEN
                 /\ Fail("MalformedFrame", r.pos)
                 /\ UNCHANGED << rstreams, rcur, rframe >>
               ELSE IF decodeLength(r.buffer) = END_OF_STREAM THEN
                 /\ rstate' = "AwaitingStreamOrEnd"
                 /\ pos' = r.pos
                 /\ rstreams' = Append(rstreams, rcur)
                 /\ rcur' = << >>
                 /\ UNCHANGED << rframe, rerror >>
               ELSE
                 /\ rstate' = "ReadingFrameBody"
                 /\ pos' = r.pos
                 /\ rframe' = decodeLength(r.buffer)
                 /\ UNCHANGED << rstreams, rcur, rerror >>
  /\ UNCHANGED << zvars, overflowChecked, pvars, bpc, wvars, wire, tampered, cut,
                  preType, preLength, rtype, rheader >>

\* a frame's bytes: exactly the length read before them
ReadFrameBody ==
  /\ rstate = "ReadingFrameBody"
  /\ LET r == stream_read_exact(wire, pos, U64FromInt(rframe))
     IN  IF ~r.ok THEN
           /\ Fail(r.error, r.pos)
           /\ UNCHANGED rcur
         ELSE
           /\ rstate' = "ReadingFrameLength"
           /\ pos' = r.pos
           /\ rcur' = rcur \o r.buffer
           /\ UNCHANGED rerror
  /\ UNCHANGED << zvars, overflowChecked, pvars, bpc, wvars, wire, tampered, cut,
                  preType, preLength, rtype, rheader, rstreams, rframe >>

Next ==
  \/ DecodeBottleType
  \/ MakeBottle
  \/ Tamper
  \/ Cut
  \/ ReadPreamble
  \/ ReadHeaderBody
  \/ AwaitStreamOrEnd
  \/ ReadFrameLength
  \/ ReadFrameBody

\* the bottle writer and reader
Spec == Init /\ [][Next]_vars

\* the steps of the reader
ReaderNext ==
  \/ ReadPreamble
  \/ ReadHeaderBody
  \/ AwaitStreamOrEnd
  \/ ReadFrameLength
  \/ ReadFrameBody

\* the bottle writer and reader, the reader's pull loop driven on by its
\* caller for as long as it has a step to take
SpecLive == Spec /\ WF_vars(ReaderNext)

\* the integer codecs alone
SpecZint == Init /\ [][ZNext]_vars

\* check_magic(buffer) on 8 bytes of any content
CheckMagic ==
  /\ magicIn = << >>
  /\ \E buffer \in PreambleInputs :
       /\ magicIn' = buffer
       /\ magicOut' = check_magic(buffer, overflowChecked)
  /\ UNCHANGED << zpc, number, packed, writer, ioResult, lengthOut, packedOut,
                  consumed, typeIn, typeOut, lensIn, prefixOut, overflowChecked,
                  bvars, pvars >>

\* check_magic alone
SpecMagic == Init /\ [][CheckMagic]_vars

\* ----------------------------------------------- bottle: the consumer polls

\* framed_vec_stream(s): nothing is polled yet
StartFramedVecStream ==
  /\ ppc = "idle"
  /\ lensIn = << -1 >>
  /\ bpc = "idle"
  /\ \E s \in FrameInputs :
       /\ streams' = << s >>
       /\ pst' = [chain |-> "framed", cur |-> 1, inner |-> "First",
                  acc |-> << >>, pulled |-> << 0 >>]
  /\ pkind' = "framed_vec_stream"
  /\ ppc' = "polling"
  /\ UNCHANGED << zvars, overflowChecked, bpc, btype, header, out, wire,
                  tampered, cut, rvars, requested, lastPulls >>

\* make_bottle(btype, header, streams): the header is encoded and its size
\* asserted, nothing is polled yet
StartMakeBottle ==
  /\ ppc = "idle"
  /\ lensIn = << -1 >>
  /\ bpc = "idle"
  /\ \E t \in BottleType, h \in Headers, ss \in StreamLists :
       /\ Len(h) <= MaxHeaderSmall \/ ss = << >>
       /\ btype' = t
       /\ header' = h
       /\ streams' = ss
       /\ pst' = [chain |-> "header", cur |-> 0, inner |-> "First",
                  acc |-> << >>, pulled |-> [i \in 1..Len(ss) |-> 0]]
       /\ ppc' = IF make_header_stream(t, h).panic THEN "panicked" ELSE "polling"
  /\ pkind' = "make_bottle"
  /\ UNCHANGED << zvars, overflowChecked, bpc, out, wire, tampered, cut, rvars,
                  requested, lastPulls >>

\* the consumer polls the stream framed_vec_stream returned: an item, or
\* the end
PollFramedVecStream ==
  /\ ppc = "polling"
  /\ pkind = "framed_vec_stream"
  /\ LET r == framed_vec_stream_poll(stream_poll(streams[1], pst.pulled[1]),
                                     pst.pulled[1], pst.acc, pst.inner)
     IN  /\ out' = IF r.some THEN Append(out, r.item) ELSE out
         /\ ppc' = IF r.some THEN "polling" ELSE "finished"
         /\ pst' = [pst EXCEPT !.inner = r.inner, !.acc = r.acc,
                               !.pulled[1] = r.pulled]
         /\ lastPulls' = r.pulled - pst.pulled[1]
  /\ requested' = requested + 1
  /\ UNCHANGED << zvars, overflowChecked, bpc, btype, header, streams, wire,
                  tampered, cut, rvars, pkind >>

RECURSIVE Sum(_)
\* the sum of a sequence of numbers
Sum(ns) == IF ns = << >> THEN 0 ELSE Head(ns) + Sum(Tail(ns))

\* the closure of framed_vec_stream's map on a chunk-group of which only the
\* lengths of the buffers are known: the fold adds them up, and the number
\* is what encode_length is given
total_length(lens) == Sum(lens)

\* the first buffer the closure pushes for such a chunk-group
FramePrefix ==
  /\ ppc = "idle"
  /\ lensIn = << -1 >>
  /\ \E lens \in GroupLengths :
       /\ lensIn' = lens
       /\ prefixOut' = encode_length(total_length(lens)).bytes
  /\ UNCHANGED << zpc, number, packed, writer, ioResult, lengthOut, packedOut,
                  consumed, typeIn, typeOut, magicIn, magicOut, overflowChecked,
                  bvars, pvars >>

\* the consumer polls the stream make_bottle returned: an item, or the end
PollMakeBottle ==
  /\ ppc = "polling"
  /\ pkind = "make_bottle"
  /\ LET r == make_bottle_poll(btype, header, streams, pst)
     IN  /\ out' = IF r.some THEN Append(out, r.item) ELSE out
         /\ ppc' = IF r.some THEN "polling" ELSE "finished"
         /\ pst' = r.st
         /\ lastPulls' = Sum(r.st.pulled) - Sum(pst.pulled)
  /\ requested' = requested + 1
  /\ UNCHANGED << zvars, overflowChecked, bpc, btype, header, streams, wire,
                  tampered, cut, rvars, pkind >>

PNext ==
  \/ FramePrefix
  \/ StartFramedVecStream
  \/ StartMakeBottle
  \/ PollFramedVecStream
  \/ PollMakeBottle

\* the bottle writer, polled item by item
SpecPull == Init /\ [][PNext]_vars

\* ------------------------------------------------------------- the claims

\* the reader has stopped
ReaderStopped == rstate \in { "Done", "Failed", "Panicked" }

\* the bytes of every sub-stream given to make_bottle, in order
StreamBytes == [i \in 1..Len(streams) |-> FlattenStream(streams[i])]

\* the bottle reached the reader as make_bottle wrote it
Intact == bpc = "built" /\ ~tampered /\ ~cut

\* C1: reading back the bytes of a bottle yields its type, its header and
\* the bytes of its sub-streams, in order.  Violated: a header of 1 byte is
\* read back as a header of 0 bytes.
C1_BottleRoundTrip ==
  /\ (Intact /\ rstate \notin { "AwaitingPreamble", "AwaitingHeaderBody" }) =>
       /\ rstate \notin { "Failed", "Panicked" }
       /\ rtype = btype
       /\ rheader = header
  /\ (Intact /\ ReaderStopped) =>
       /\ rstate = "Done"
       /\ rstreams = StreamBytes

\* C2: every length below 2^28 decodes to itself, 0 to the end of stream,
\* and no length from 1 on to a sentinel.  Violated: 2^22 is written as 0xFF,
\* which decodes to the end of all streams.
C2_LengthRoundTrip ==
  zpc = "length_read" =>
    /\ lengthOut = number
    /\ number = 0 => lengthOut = END_OF_STREAM
    /\ number >= 1 => lengthOut \notin { END_OF_STREAM, -1 }

\* C3: check_magic on the preamble make_header_stream built returns the
\* bottle's type and the length of its encoded header.  Violated: the length
\* is computed as (byte6 & 0xf) << (8 + byte7).
C3_PreambleRoundTrip ==
  (Intact /\ rstate # "AwaitingPreamble") =>
    /\ rstate # "Panicked"
    /\ preType = btype
    /\ preLength = U64FromInt(Len(header))

\* C4: no length encode_length accepts is written as the byte 0xFF, nor
\* with 0xFF as its first byte.  Violated: 2^22 is written as 0xFF.
C4_NeverEndOfAllStreams ==
  (zpc = "length_written" /\ ioResult = "Ok") =>
    /\ writer # << 255 >>
    /\ writer[1] # 255

\* C5: decode_packed_int on exactly the bytes encode_packed_int wrote for n
\* returns n; 987654321 is written b1 68 de 3a and 256 is written 00 01.
C5_PackedRoundTrip ==
  /\ zpc = "packed_read" => packedOut = packed
  /\ (zpc \in { "packed_written", "packed_read" } /\ packed = U64FromInt(987654321))
       => writer = << 177, 104, 222, 58 >>
  /\ (zpc \in { "packed_written", "packed_read" } /\ packed = U64FromInt(256))
       => writer = << 0, 1 >>

\* the greatest u64 was written as 8 bytes and read back
C5_Witness ==
  /\ zpc = "packed_read"
  /\ packed = [i \in 1..8 |-> 255]
  /\ Len(writer) = 8
  /\ packedOut = packed

\* C6: encode_length fails for every n >= 2^28 and writes no byte; it
\* succeeds for every n < 2^28.
C6_LengthOverflow ==
  zpc = "length_written" =>
    /\ number >= 268435456 => (ioResult = "Err" /\ writer = << >>)
    /\ number < 268435456 => (ioResult = "Ok" /\ writer # << >>)

\* 2^28 was refused
C6_Witness ==
  /\ zpc = "length_written"
  /\ number = 268435456
  /\ ioResult = "Err"
  /\ writer = << >>

\* C7: for 7 <= k <= 21 encode_length(2^k) writes the one byte 0xF0 + (k - 7).
C7_PowerOfTwoOneByte ==
  \A k \in 7..21 :
    (zpc = "length_written" /\ number = 2 ^ k) => writer = << 240 + (k - 7) >>

\* 2^21 was written as 0xFE
C7_Witness ==
  /\ zpc = "length_written"
  /\ number = 2097152
  /\ writer = << 254 >>

\* the stream starts with the 4 bytes of the magic
HasMagic(w) == Len(w) >= 4 /\ SubSeq(w, 1, 4) = MAGIC

\* C8, as claimed: a stream whose first 4 bytes are not the magic fails with
\* BadMagic, and no more bytes are taken than the 4 that show it.  Violated:
\* read_header takes 8 bytes before it looks at any, and a stream of less
\* than 8 bytes fails in that read.
C8_BadMagicMinimal ==
  (bpc = "built" /\ ~HasMagic(wire) /\ rstate # "AwaitingPreamble") =>
    /\ rstate = "Failed"
    /\ rerror = "BadMagic"
    /\ pos <= 4

\* C8, amended: a stream of at least 8 bytes whose first 4 are not the
\* magic fails with BadMagic once exactly the 8 bytes of the preamble are
\* taken, and yields no type and no header; a stream of less than 8 bytes
\* fails in the read of the preamble, with TruncatedInput and not BadMagic.
C8_BadMagicAfterPreamble ==
  (bpc = "built" /\ ~HasMagic(wire) /\ rstate # "AwaitingPreamble") =>
    /\ rstate = "Failed"
    /\ rtype = "none"
    /\ rheader = << >>
    /\ Len(wire) >= 8 => (rerror = "BadMagic" /\ pos = 8)
    /\ Len(wire) < 8 => rerror = "TruncatedInput"

\* a preamble whose magic was changed, with bytes after it, was refused
C8_Witness ==
  /\ bpc = "built"
  /\ tampered
  /\ ~HasMagic(wire)
  /\ Len(wire) > 8
  /\ rstate = "Failed"
  /\ rerror = "BadMagic"

\* C9: make_bottle with a header of 4096 bytes or more fails before any
\* chunk-group exists; with a header of at most 4095 bytes it returns a
\* stream that starts with the header's chunk-group.
C9_HeaderSizePrecondition ==
  bpc # "idle" =>
    /\ Len(header) >= 4096 => (bpc = "panicked" /\ out = << >> /\ wire = << >>)
    /\ Len(header) <= 4095 => (bpc = "built" /\ Len(out) >= 1 /\ out[1][1] = MAGIC)

\* a header of 4096 bytes was refused
C9_Witness ==
  /\ bpc = "panicked"
  /\ Len(header) = 4096
  /\ out = << >>

\* the bytes that are bottle types
TypeCodes == { 0, 1, 3, 4, 10, 11 }

\* C10: decode_bottle_type(b) succeeds exactly for b in {0, 1, 3, 4, 10, 11},
\* with the variant whose number is b, and fails with the unknown-type error
\* for every other byte; check_magic on a preamble with the magic, version 0
\* and reserved 0 fails with that error iff byte 6's high nibble is no type.
C10_ClosedTypeSet ==
  /\ typeIn # -1 =>
       /\ typeIn \in TypeCodes =>
            (typeOut.ok /\ BottleTypeAsU8(typeOut.btype) = typeIn)
       /\ typeIn \notin TypeCodes =>
            (~typeOut.ok /\ typeOut.error = "UnknownBottleType")
  /\ (/\ bpc = "built"
      /\ Len(wire) >= 8
      /\ HasMagic(wire)
      /\ wire[5] = 0
      /\ wire[6] = 0
      /\ rstate # "AwaitingPreamble")
       => ((rstate = "Failed" /\ rerror = "UnknownBottleType")
             <=> (wire[7] \div 16) \notin TypeCodes)

\* a preamble of type 2 was refused
C10_Witness ==
  /\ rstate = "Failed"
  /\ rerror = "UnknownBottleType"
  /\ HasMagic(wire)
  /\ wire[7] \div 16 = 2

\* a is the start of b
IsPrefix(a, b) == Len(a) <= Len(b) /\ a = SubSeq(b, 1, Len(a))

\* the chunk-group that closes a sub-stream, and the one that closes a bottle
TerminatorGroup == << << 0 >> >>

EndGroup == << << 255 >> >>

RECURSIVE Segments(_, _, _)
\* the items cut at every terminator group: the segments closed by one, in
\* order, and the items after the last
Segments(items, closed, open) ==
  IF items = << >> THEN [closed |-> closed, open |-> open]
  ELSE IF Head(items) = TerminatorGroup
    THEN Segments(Tail(items), Append(closed, open), << >>)
    ELSE Segments(Tail(items), closed, Append(open, Head(items)))

\* the bytes the items of a segment carry after their first buffers
SegmentBytes(seg) == FlattenStream([i \in 1..Len(seg) |-> Tail(seg[i])])

\* the stream make_bottle returned has given the end of all streams
Ended == Len(out) >= 2 /\ out[Len(out)] = EndGroup

\* the items between the header's group and the end of all streams
Body == SubSeq(out, 2, IF Ended THEN Len(out) - 1 ELSE Len(out))

\* C11: at every moment the items make_bottle has emitted are the header's
\* chunk-group (magic, the 4 bytes of version, type and length, the header),
\* then the framed sub-streams in the order given, each whole and closed by
\* its terminator group before anything of the next, the one being emitted a
\* start of its sub-stream; the group of the one byte 0xFF comes once, after
\* the k-th terminator group, and is the last item when the stream ends.
C11_AssemblerOrdering ==
  (pkind = "make_bottle" /\ ppc \in { "polling", "finished" }) =>
    LET k == Len(streams)
        sg == Segments(Body, << >>, << >>)
        t == Len(sg.closed)
    IN  /\ Len(out) >= 1 =>
             out[1] = << << 240, 159, 141, 188 >>,
                         << 0, 0,
                            16 * BottleTypeAsU8(btype) + (Len(header) \div 256),
                            Len(header) % 256 >>,
                         header >>
        /\ t <= k
        /\ \A j \in 1..t : SegmentBytes(sg.closed[j]) = FlattenStream(streams[j])
        /\ sg.open # << >> =>
             /\ t < k
             /\ IsPrefix(SegmentBytes(sg.open), FlattenStream(streams[t + 1]))
        /\ \A i \in 1..Len(Body) : Body[i] # EndGroup
        /\ Ended => (t = k /\ sg.open = << >>)
        /\ ppc = "finished" => (Ended /\ requested = Len(out) + 1)

\* a bottle of two different sub-streams with bytes was emitted to its end
C11_Witness ==
  /\ pkind = "make_bottle"
  /\ ppc = "finished"
  /\ Len(streams) = 2
  /\ FlattenStream(streams[1]) # << >>
  /\ FlattenStream(streams[2]) # << >>
  /\ streams[1] # streams[2]
  /\ Ended
  /\ Len(Segments(Body, << >>, << >>).closed) = 2

RECURSIVE SumLen(_)
\* the lengths of the buffers of a chunk-group, added up
SumLen(buffers) ==
  IF buffers = << >> THEN 0 ELSE Len(Head(buffers)) + SumLen(Tail(buffers))

\* C12: for a stream of m chunk-groups framed_vec_stream emits m + 1 items:
\* the i-th is one new buffer, encode_length of the sum of the lengths of
\* the i-th group's buffers (0x81 0x02 for 129 bytes, 0xF0 for 128), and then
\* that group's buffers, unchanged and in order; the last is the one buffer
\* 0x00.
C12_FrameWriterTransform ==
  pkind = "framed_vec_stream" =>
    LET s == streams[1]
        m == Len(s)
    IN  /\ Len(out) <= m + 1
        /\ \A i \in 1..Len(out) :
             i <= m =>
               /\ out[i] = << encode_length(SumLen(s[i])).bytes >> \o s[i]
               /\ SumLen(s[i]) = 129 => Head(out[i]) = << 129, 2 >>
               /\ SumLen(s[i]) = 128 => Head(out[i]) = << 240 >>
        /\ Len(out) = m + 1 => out[m + 1] = << << 0 >> >>
        /\ ppc = "finished" => (Len(out) = m + 1 /\ requested = m + 2)

\* a stream of three groups, one of two buffers and one of none, was framed
\* to its end
C12_Witness ==
  /\ pkind = "framed_vec_stream"
  /\ ppc = "finished"
  /\ Len(streams[1]) = 3
  /\ Len(streams[1][1]) = 2
  /\ streams[1][2] = << >>
  /\ Len(out) = 4
  /\ out[1][1] = << 240 >>

\* what check_magic makes of the first 8 bytes on the wire
Preamble == check_magic(SubSeq(wire, 1, 8), overflowChecked)

C13_TruncatedWitness ==
  /\ bpc = "built"
  /\ tampered
  /\ Len(wire) >= 8
  /\ Preamble.kind = "Ok"
  /\ rstate = "Failed"
  /\ rerror = "TruncatedInput"
  /\ rtype = "none"

\* C14: check_magic on 8 bytes returns BadMagic when bytes 0-3 are not the
\* magic, whatever bytes 4-7 are; else BadVersion when byte 4 or byte 5 is
\* not 0, whatever bytes 6-7 are; else the unknown-type error when the high
\* nibble of byte 6 is no type; else it succeeds.  Violated: with the magic,
\* version 0 and a type, a byte 7 of 56 or more makes the shift of the
\* length 64 or more, which panics where overflow is checked.
C14_PreambleValidationOrder ==
  magicIn # << >> =>
    IF SubSeq(magicIn, 1, 4) # << 240, 159, 141, 188 >> THEN
      magicOut.kind = "Err" /\ magicOut.error = "BadMagic"
    ELSE IF magicIn[5] # 0 \/ magicIn[6] # 0 THEN
      magicOut.kind = "Err" /\ magicOut.error = "BadVersion"
    ELSE IF (magicIn[7] \div 16) \notin TypeCodes THEN
      magicOut.kind = "Err" /\ magicOut.error = "UnknownBottleType"
    ELSE
      magicOut.kind = "Ok" /\ BottleTypeAsU8(magicOut.btype) = magicIn[7] \div 16

\* the moves between the reader's states that the state machine has
ReaderEdges ==
  { << "AwaitingPreamble", "AwaitingHeaderBody" >>,
    << "AwaitingHeaderBody", "AwaitingStreamOrEnd" >>,
    << "AwaitingStreamOrEnd", "ReadingFrameLength" >>,
    << "ReadingFrameLength", "ReadingFrameBody" >>,
    << "ReadingFrameBody", "ReadingFrameLength" >>,
    << "ReadingFrameLength", "AwaitingStreamOrEnd" >>,
    << "AwaitingStreamOrEnd", "Done" >> }
    \cup { << from, "Failed" >> :
             from \in { "AwaitingPreamble", "AwaitingHeaderBody", "AwaitingStreamOrEnd",
                        "ReadingFrameLength", "ReadingFrameBody" } }

\* C15: the reader moves only along AwaitingPreamble -> AwaitingHeaderBody
\* -> AwaitingStreamOrEnd -> (ReadingFrameLength <-> ReadingFrameBody) ->
\* AwaitingStreamOrEnd -> Done, or to Failed; a length of 0x00 takes it from
\* ReadingFrameLength back to AwaitingStreamOrEnd; it gets to Done only by
\* reading 0xFF in AwaitingStreamOrEnd; reading any stream it ends in Done
\* or in Failed; and nothing of the reader changes after either.  Violated:
\* a stream that ends where a sub-stream could start takes the reader to Done
\* with no 0xFF read, and a panic of check_magic leaves it in neither state.
C15_ReaderStateMachine ==
  /\ [][rstate' # rstate => << rstate, rstate' >> \in ReaderEdges]_vars
  /\ [][(rstate = "ReadingFrameLength" /\ rstate' = "AwaitingStreamOrEnd") =>
          (pos' = pos + 1 /\ wire[pos'] = 0)]_vars
  /\ [][(rstate # "Done" /\ rstate' = "Done") =>
          (rstate = "AwaitingStreamOrEnd" /\ pos' = pos + 1 /\ wire[pos'] = 255)]_vars
  /\ [](bpc = "built" => <>(rstate \in { "Done", "Failed" }))
  /\ [][(rstate = "Done" \/ rstate = "Failed") => UNCHANGED rvars]_vars

\* the chunk-groups the last poll took, all of them from the sub-stream the
\* stream is in
LastPulled ==
  SubSeq(streams[pst.cur],
         pst.pulled[pst.cur] - lastPulls + 1,
         pst.pulled[pst.cur])

\* no sub-stream is polled before the one ahead of it has given all its
\* chunk-groups, and no poll has given more than one item
PullOrder ==
  /\ Len(out) <= requested
  /\ \A i \in 1..(Len(streams) - 1) :
       pst.pulled[i + 1] > 0 => pst.pulled[i] = Len(streams[i])

C17_PackedStopsAtEight ==
  zpc = "source_read" =>
    /\ consumed = (IF Len(writer) > 8 THEN 8 ELSE Len(writer))
    /\ packedOut = [i \in 1..8 |-> IF i <= Len(writer) THEN writer[i] ELSE 0]

\* C18: in what framed_vec_stream emits, a first buffer equal to the byte
\* 0x00 is only that of the last item, the terminator, and no first buffer
\* is the byte 0xFF, whatever the chunk-groups are.  Violated: a chunk-group
\* of no byte gets the first buffer 0x00, and one of 2^22 bytes gets 0xFF.
C18_SentinelsPositional ==
  /\ pkind = "framed_vec_stream" =>
       \A i \in 1..Len(out) :
         /\ Head(out[i]) = << 0 >> => i = Len(streams[1]) + 1
         /\ Head(out[i]) # << 255 >>
  /\ lensIn # << -1 >> =>
       /\ prefixOut # << 0 >>
       /\ prefixOut # << 255 >>

\* C19: for every 8 bytes check_magic accepts, whatever the low nibble of
\* byte 6 and byte 7 are, the header_length it returns is at most 4095 and
\* computing it does not overflow, so read_header asks for at most 4095
\* bytes of header.  Violated: the length is (byte 6 & 0xf) << (8 + byte 7),
\* which is 4096 for the bytes 0x01 0x04, 2^63 for 0x01 0x37, and a shift of
\* 64 or more from 0x38 on.
C19_BoundedHeaderLength ==
  magicIn # << >> =>
    /\ magicOut.kind # "Panic"
    /\ magicOut.kind = "Ok" =>
         /\ U64Fits(magicOut.header_length)
         /\ U64ToInt(magicOut.header_length) <= 4095

\* C20: for every n below 2^28 encode_length writes 1, 2, 3 or 4 bytes, as
\* many as the first byte alone tells (top bit 0 or top nibble 0xF: 1;
\* 10xxxxxx: 2; 110xxxxx: 3; 1110xxxx: 4), which is what lengthLength returns
\* for it, and no other n below 2^28 is written as the same bytes.
C20_LengthSelfDelimiting ==
  (zpc = "length_written" /\ number < 268435456) =>
    /\ ioResult = "Ok"
    /\ Len(writer) =
         (IF writer[1] < 128 \/ writer[1] >= 240 THEN 1
          ELSE IF writer[1] < 192 THEN 2
          ELSE IF writer[1] < 224 THEN 3
          ELSE 4)
    /\ Len(writer) = lengthLength(writer[1])
    /\ \A m \in LengthInputs :
         (m # number /\ m < 268435456) => encode_length(m).bytes # writer

\* a length of 4 bytes, 3998778, was written ea 43 d0 03
C20_Witness ==
  /\ zpc = "length_written"
  /\ number = 3998778
  /\ writer = << 234, 67, 208, 3 >>
  /\ lengthLength(writer[1]) = 4

====
